---- MODULE Spec2Model ----
(***************************************************************************)
(* PropGraph (arachne/propgraphclass.py): the client-side property graph.  *)
(* The state is the object's fields (node_attributes, edge_attributes,     *)
(* label_mapper, relationship_mapper), the vertex and edge arrays of the   *)
(* DiGraph it inherits from, and a record of the last public call: its     *)
(* arguments, the error it raised and the requests it sent to the server.  *)
(*                                                                         *)
(* A DataFrame is [columns |-> sequence of names, data |-> name -> array]; *)
(* an array is [str |-> is it ak.Strings, v |-> sequence of values].       *)
(* Textual values are numbered in their sort order.                        *)
(***************************************************************************)
EXTENDS Integers, Sequences, FiniteSets, TLC

\* ---------------------------------------------------------------- bounds
MaxNode == 2
MaxVal == 2
MaxRows == 2
MaxCalls == 2

NodeIds == 1..MaxNode
Vals == 1..MaxVal

\* ak.array([" "]): the one-value dictionary of a non-textual column.
Placeholder == 0
\* ak.find's answer for a value that is not in the search space.
NotFound == -1

VARIABLES vertex_map, edge_list, node_attributes, edge_attributes,
          label_mapper, relationship_mapper, last, ncalls

vars == <<vertex_map, edge_list, node_attributes, edge_attributes,
          label_mapper, relationship_mapper, last, ncalls>>

\* ------------------------------------------------------- array helpers
Range(s) == {s[i] : i \in DOMAIN s}

\* a[idx]: the elements of a at the (1-based) positions idx, in idx order.
Take(a, idx) == [i \in DOMAIN idx |-> a[idx[i]]]

\* The positions where the Boolean array m is true, ascending.
RECURSIVE TruePositions(_, _)
TruePositions(m, i) ==
    IF i > Len(m) THEN <<>>
    ELSE (IF m[i] THEN <<i>> ELSE <<>>) \o TruePositions(m, i + 1)

\* ak.in1d(a, b): for each element of a, is it a value of b.
In1d(a, b) == [i \in DOMAIN a |-> a[i] \in Range(b)]

\* ak.find(query, space): 0-based position of each query value in space,
\* NotFound where it is absent.
Find(query, space) ==
    [i \in DOMAIN query |->
        IF query[i] \in Range(space)
        THEN (CHOOSE j \in DOMAIN space :
                 space[j] = query[i] /\ \A k \in 1..(j - 1) : space[k] # query[i]) - 1
        ELSE NotFound]

\* Lexicographic order on keys, which are tuples of integers of one length.
RECURSIVE KeyLess(_, _)
KeyLess(a, b) ==
    IF a = <<>> THEN FALSE
    ELSE \/ a[1] < b[1]
         \/ a[1] = b[1] /\ KeyLess(Tail(a), Tail(b))

\* The elements of a set of keys as an ascending sequence.
RECURSIVE SortKeys(_)
SortKeys(S) ==
    IF S = {} THEN <<>>
    ELSE LET m == CHOOSE x \in S : \A y \in S \ {x} : KeyLess(x, y)
         IN  <<m>> \o SortKeys(S \ {m})

\* GroupBy(keys).unique_keys
UniqueKeys(keys) == SortKeys(Range(keys))

\* For each distinct key, ascending, the position of its last row.
GroupLast(keys) ==
    LET u == UniqueKeys(keys)
    IN  [g \in DOMAIN u |->
            CHOOSE i \in DOMAIN keys :
                keys[i] = u[g] /\ \A k \in (i + 1)..Len(keys) : keys[k] # u[g]]

\* GroupBy(keys).permutation[GroupBy(keys).segments]: for each distinct key,
\* ascending, the position of its first row (the sort is stable).
GroupFirst(keys) ==
    LET u == UniqueKeys(keys)
    IN  [g \in DOMAIN u |->
            CHOOSE i \in DOMAIN keys :
                keys[i] = u[g] /\ \A k \in 1..(i - 1) : keys[k] # u[g]]

\* A column of scalars as one-component keys, two columns as pair keys.
Keys1(a) == [i \in DOMAIN a |-> <<a[i]>>]
Keys2(a, b) == [i \in DOMAIN a |-> <<a[i], b[i]>>]

\* Codes numbered in the order in which the values first appear in the
\* column, not in their sort order.
CodesByAppearance(col) ==
    [i \in DOMAIN col |->
        LET first == CHOOSE f \in 1..i :
                        col[f] = col[i] /\ \A h \in 1..(f - 1) : col[h] # col[i]
        IN  Cardinality({col[k] : k \in 1..first}) - 1]

\* GroupBy(col).broadcast(arange(unique_keys.size)): each row's code.
Codes(col) == Find(Keys1(col), UniqueKeys(Keys1(col)))

\* GroupBy(col).unique_keys as a plain array: the column's dictionary.
Dictionary(col) ==
    LET u == UniqueKeys(Keys1(col)) IN [i \in DOMAIN u |-> u[i][1]]

\* --------------------------------------------------- DataFrame helpers
EmptyMap == [c \in {} |-> <<>>]
EmptyFrame == [columns |-> <<>>, data |-> EmptyMap]

StrCol(v) == [str |-> TRUE, v |-> v]
IntCol(v) == [str |-> FALSE, v |-> v]

HasCol(df, c) == c \in DOMAIN df.data

NRows(df) == IF df.columns = <<>> THEN 0 ELSE Len(df.data[df.columns[1]].v)

\* df[idx]: the rows of df at positions idx.
TakeRows(df, idx) ==
    [columns |-> df.columns,
     data |-> [c \in DOMAIN df.data |->
                  [str |-> df.data[c].str, v |-> Take(df.data[c].v, idx)]]]

\* df.drop(names, axis=1, inplace=True)
DropCols(df, names) ==
    [columns |-> SelectSeq(df.columns, LAMBDA c : c \notin names),
     data |-> [c \in (DOMAIN df.data) \ names |-> df.data[c]]]

\* df[c] = col for a frame of matching size.
SetCol(df, c, col) ==
    [columns |-> IF HasCol(df, c) THEN df.columns ELSE Append(df.columns, c),
     data |-> [d \in (DOMAIN df.data) \cup {c} |->
                  IF d = c THEN col ELSE df.data[d]]]

\* mapper[c] = d
SetMap(m, c, d) == [k \in (DOMAIN m) \cup {c} |-> IF k = c THEN d ELSE m[k]]

\* The arrays of the columns cols of df, in that order.
ColumnArrays(df, cols) == [i \in DOMAIN cols |-> df.data[cols[i]]]

\* --------------------------------------------------------- the errors
NoError == "none"
NameCollision == "KeyError: duplicated attribute (column) name"
MissingKey == "KeyError: attribute (column) does not exist"
TypeErr == "TypeError: argument of type 'NoneType' is not iterable"
ValueErr == "ValueError"

\* One request to the server: ak.generic_msg(cmd, args), with the arrays the
\* names in args stand for.
Request(cmd, indices, columns, arrays, mappers) ==
    [cmd |-> cmd, indices |-> indices, columns |-> columns,
     arrays |-> arrays, mappers |-> mappers]

\* What a call leaves behind: the error it raised, the attribute table and
\* the mapper of its category, and the requests it sent.
Outcome(err, attrs, mapper, msgs) ==
    [err |-> err, attrs |-> attrs, mapper |-> mapper, msgs |-> msgs]

\* ------------------------------------------- DiGraph (not in this file)
\* DiGraph.add_edges_from(src, dst): the vertices are the sorted distinct
\* values of both columns, the edges the sorted distinct pairs of internal
\* vertex ids.
BuildVertices(src, dst) ==
    LET u == UniqueKeys(Keys1(src \o dst)) IN [i \in DOMAIN u |-> u[i][1]]

BuildEdges(src, dst) ==
    LET vm == BuildVertices(src, dst)
    IN  UniqueKeys(Keys2(Find(src, vm), Find(dst, vm)))

\* ------------------------------------------------- categorical encoding
\* Step 2 of add_node_labels / add_edge_relationships: every textual column
\* gets its sorted distinct values as dictionary and its codes written into
\* the stored attribute table; a non-textual column gets the placeholder.
\* Writing a column whose size is not the table's raises ValueError.
RECURSIVE EncodeColumns(_, _, _, _)
EncodeColumns(attrs, mapper, table, cols) ==
    IF cols = <<>> THEN Outcome(NoError, attrs, mapper, <<>>)
    ELSE LET c == Head(cols)
             col == table.data[c]
         IN  IF col.str
             THEN LET m1 == SetMap(mapper, c, Dictionary(col.v))
                  IN  IF attrs.columns # <<>> /\ NRows(attrs) # Len(col.v)
                      THEN Outcome(ValueErr, attrs, m1, <<>>)
                      ELSE EncodeColumns(SetCol(attrs, c, IntCol(Codes(col.v))),
                                         m1, table, Tail(cols))
             ELSE EncodeColumns(attrs, SetMap(mapper, c, <<Placeholder>>),
                                table, Tail(cols))

\* Step 0 of add_node_labels / add_edge_relationships: the lookup of every
\* input column in the stored table; a lookup of an absent column raises
\* KeyError, which the code reports as a duplicated name.
PreliminaryCheckFails(attrs, table) ==
    \E i \in DOMAIN table.columns : ~HasCol(attrs, table.columns[i])

\* Steps 3 and 4 of add_node_labels: keep the ids that are vertices, turn
\* them into internal ids, keep the first row of each id, ascending.
ResolveNodeLabelIds(ids, vm) ==
    LET inds == TruePositions(In1d(ids, vm), 1)
        internal == Find(Take(ids, inds), vm)
    IN  Take(internal, GroupFirst(Keys1(internal)))

\* Steps 3 and 4 of add_node_labels on the label rows: the rows of the
\* input that labels[inds] (line 135) and labels[inds] (line 142) keep, as
\* positions in the input, in the order of the internal ids.
KeptLabelRows(ids, vm) ==
    LET inds == TruePositions(In1d(ids, vm), 1)
        internal == Find(Take(ids, inds), vm)
    IN  Take(inds, GroupFirst(Keys1(internal)))

\* add_node_labels with step 2 (the encoding) moved before step 1 (the
\* lookup of the "nodes" column).
AddNodeLabelsCallEncodeFirst(na, lm, vm, labels) ==
    IF PreliminaryCheckFails(na, labels)
    THEN Outcome(NameCollision, na, lm, <<>>)
    ELSE LET lab == DropCols(labels, {"nodes"})
             enc == EncodeColumns(na, lm, lab, lab.columns)
         IN  IF enc.err # NoError THEN enc
             ELSE IF ~HasCol(labels, "nodes")
             THEN Outcome(MissingKey, enc.attrs, enc.mapper, <<>>)
             ELSE Outcome(NoError, enc.attrs, enc.mapper,
                     << Request("addNodeLabels",
                                ResolveNodeLabelIds(labels.data["nodes"].v, vm),
                                lab.columns,
                                ColumnArrays(lab, lab.columns),
                                [i \in DOMAIN lab.columns |->
                                    enc.mapper[lab.columns[i]]]) >>)

\* add_node_labels with the dictionaries taken from the rows whose node is
\* a vertex only.
AddNodeLabelsCallSurvivorDictionary(na, lm, vm, labels) ==
    IF PreliminaryCheckFails(na, labels)
    THEN Outcome(NameCollision, na, lm, <<>>)
    ELSE IF ~HasCol(labels, "nodes")
    THEN Outcome(MissingKey, na, lm, <<>>)
    ELSE LET ids == labels.data["nodes"].v
             lab == DropCols(labels, {"nodes"})
             enc == EncodeColumns(na, lm, lab, lab.columns)
             kept == TakeRows(lab, TruePositions(In1d(ids, vm), 1))
             dicts == EncodeColumns(EmptyFrame, lm, kept, lab.columns).mapper
         IN  IF enc.err # NoError THEN enc
             ELSE Outcome(NoError, enc.attrs, dicts,
                     << Request("addNodeLabels",
                                ResolveNodeLabelIds(ids, vm),
                                lab.columns,
                                ColumnArrays(lab, lab.columns),
                                [i \in DOMAIN lab.columns |->
                                    dicts[lab.columns[i]]]) >>)

\* PropGraph.add_node_labels(labels) on a graph with node_attributes na,
\* label_mapper lm and vertices vm.
AddNodeLabelsCall(na, lm, vm, labels) ==
    IF PreliminaryCheckFails(na, labels)
    THEN Outcome(NameCollision, na, lm, <<>>)
    ELSE IF ~HasCol(labels, "nodes")
    THEN Outcome(MissingKey, na, lm, <<>>)
    ELSE LET ids == labels.data["nodes"].v
             lab == DropCols(labels, {"nodes"})
             enc == EncodeColumns(na, lm, lab, lab.columns)
         IN  IF enc.err # NoError THEN enc
             ELSE Outcome(NoError, enc.attrs, enc.mapper,
                     << Request("addNodeLabels",
                                ResolveNodeLabelIds(ids, vm),
                                lab.columns,
                                ColumnArrays(lab, lab.columns),
                                [i \in DOMAIN lab.columns |->
                                    enc.mapper[lab.columns[i]]]) >>)

\* ----------------------------------------- designated categorical columns
\* The label_columns / relationship_columns argument: None, one name, or a
\* list of names.
NoColumns == [kind |-> "none", names |-> <<>>]
OneColumn(c) == [kind |-> "str", names |-> <<c>>]
ColumnList(cs) == [kind |-> "list", names |-> cs]

\* a in b for two column names (Python's substring test on str), over the
\* names the model uses.
IsSubstring(a, b) == a = b \/ <<a, b>> \in {<<"ty", "type">>}

\* "c in cats" as Python evaluates it for a list and for a str (it raises
\* TypeError for None, which the callers test first).
InDesignated(c, cats) ==
    IF cats.kind = "list" THEN c \in Range(cats.names)
    ELSE IsSubstring(c, cats.names[1])

\* list.remove(x): the list without the first occurrence of x.
RemoveFirst(s, x) ==
    LET i == CHOOSE k \in DOMAIN s : s[k] = x /\ \A j \in 1..(k - 1) : s[j] # x
    IN  SubSeq(s, 1, i - 1) \o SubSeq(s, i + 1, Len(s))

\* "label_columns is str": an identity test against the type object str,
\* false for every argument.
IsStrType(cats) == FALSE

\* The frame load_node_attributes hands to add_node_labels for a list of
\* label columns: those columns of the stored table, then "nodes".
LabelsToAdd(table, nodes, cats) ==
    LET cols == IF "nodes" \in Range(cats.names) THEN cats.names
                ELSE Append(cats.names, "nodes")
    IN  [columns |-> cols,
         data |-> [c \in Range(cols) |->
                      IF c = "nodes" THEN nodes ELSE table.data[c]]]

\* Step 3 of load_node_attributes: the internal ids of the stored rows
\* whose node is a vertex.
ResolveNodeIds(nodes, vm) ==
    Find(Take(nodes, TruePositions(In1d(nodes, vm), 1)), vm)

\* PropGraph.load_node_attributes(table, node_column, label_columns).
LoadNodeAttributesCall(lm, vm, table, node_column, cats) ==
    LET stored == TakeRows(table, GroupFirst(Keys1(table.data[node_column].v)))
        nodes == stored.data[node_column]
        inner == IF cats.kind # "none" /\ IsStrType(cats)
                 THEN AddNodeLabelsCall(stored, lm, vm,
                         [columns |-> <<"nodes", "labels">>,
                          data |-> [c \in {"nodes", "labels"} |->
                                       IF c = "nodes" THEN nodes
                                       ELSE stored.data[cats.names[1]]]])
                 ELSE IF cats.kind = "list"
                 THEN AddNodeLabelsCall(stored, lm, vm,
                                        LabelsToAdd(stored, nodes, cats))
                 ELSE Outcome(NoError, stored, lm, <<>>)
    IN  IF inner.err # NoError THEN inner
        ELSE IF cats.kind = "none"
        THEN Outcome(TypeErr, inner.attrs, inner.mapper, inner.msgs)
        ELSE LET kept == SelectSeq(table.columns,
                                   LAMBDA c : ~InDesignated(c, cats))
             IN  IF node_column \notin Range(kept)
                 THEN Outcome(ValueErr, inner.attrs, inner.mapper, inner.msgs)
                 ELSE LET columns == RemoveFirst(kept, node_column)
                      IN  Outcome(NoError, inner.attrs, inner.mapper,
                             Append(inner.msgs,
                                Request("addNodeProperties",
                                        ResolveNodeIds(nodes.v, vm),
                                        columns,
                                        ColumnArrays(inner.attrs, columns),
                                        <<>>)))

\* ------------------------------------------------------------ edge loads
\* Steps 3 to 5 of add_edge_relationships: look both endpoints up among the
\* vertices, keep the first row of each (src, dst) pair, ascending, and look
\* each pair up among the edges.
ResolveRelationshipIds(src, dst, vm, el) ==
    LET s == Find(src, vm)
        d == Find(dst, vm)
        inds == GroupFirst(Keys2(s, d))
    IN  Find(Keys2(Take(s, inds), Take(d, inds)), el)

\* PropGraph.add_edge_relationships(relationships) on a graph with
\* edge_attributes ea, relationship_mapper rm, vertices vm and edges el.
AddEdgeRelationshipsCall(ea, rm, vm, el, relationships) ==
    IF PreliminaryCheckFails(ea, relationships)
    THEN Outcome(NameCollision, ea, rm, <<>>)
    ELSE IF ~HasCol(relationships, "src") \/ ~HasCol(relationships, "dst")
    THEN Outcome(MissingKey, ea, rm, <<>>)
    ELSE LET src == relationships.data["src"].v
             dst == relationships.data["dst"].v
             rel == DropCols(relationships, {"src", "dst"})
             enc == EncodeColumns(ea, rm, rel, rel.columns)
         IN  IF enc.err # NoError THEN enc
             ELSE Outcome(NoError, enc.attrs, enc.mapper,
                     << Request("addEdgeRelationships",
                                ResolveRelationshipIds(src, dst, vm, el),
                                rel.columns,
                                ColumnArrays(rel, rel.columns),
                                [i \in DOMAIN rel.columns |->
                                    enc.mapper[rel.columns[i]]]) >>)

\* Step 1 of load_edge_attributes grouping by the source column alone.
StoredEdgeTableBySource(table, source_column, destination_column) ==
    TakeRows(table, GroupFirst(Keys1(table.data[source_column].v)))

\* Step 1 of load_edge_attributes: one row per (source, destination) pair,
\* the first of each, pairs ascending.
StoredEdgeTable(table, source_column, destination_column) ==
    TakeRows(table, GroupFirst(Keys2(table.data[source_column].v,
                                     table.data[destination_column].v)))

\* The frame load_edge_attributes hands to add_edge_relationships for a
\* list of relationship columns: those columns, then "src" and "dst".
RelationshipsToAdd(table, src, dst, cats) ==
    LET c1 == IF "src" \in Range(cats.names) THEN cats.names
              ELSE Append(cats.names, "src")
        cols == IF "dst" \in Range(c1) THEN c1 ELSE Append(c1, "dst")
    IN  [columns |-> cols,
         data |-> [c \in Range(cols) |->
                      IF c = "src" THEN src
                      ELSE IF c = "dst" THEN dst ELSE table.data[c]]]

\* Step 3 of load_edge_attributes: the internal index of every stored row.
ResolveEdgeIds(src, dst, vm, el) ==
    Find(Keys2(Find(src, vm), Find(dst, vm)), el)

\* PropGraph.load_edge_attributes(table, source_column, destination_column,
\* relationship_columns); the graph it builds is BuildVertices / BuildEdges
\* of the stored key columns.
LoadEdgeAttributesCall(rm, table, source_column, destination_column, cats) ==
    LET stored == StoredEdgeTable(table, source_column, destination_column)
        src == stored.data[source_column]
        dst == stored.data[destination_column]
        vm == BuildVertices(src.v, dst.v)
        el == BuildEdges(src.v, dst.v)
        built == << Request("addEdgesFrom", <<>>, <<>>, <<src, dst>>, <<>>) >>
        sub == IF cats.kind # "none" /\ IsStrType(cats)
               THEN AddEdgeRelationshipsCall(stored, rm, vm, el,
                       [columns |-> <<"src", "dst", "relationships">>,
                        data |-> [c \in {"src", "dst", "relationships"} |->
                                     IF c = "src" THEN src
                                     ELSE IF c = "dst" THEN dst
                                     ELSE stored.data[cats.names[1]]]])
               ELSE IF cats.kind = "list"
               THEN AddEdgeRelationshipsCall(stored, rm, vm, el,
                       RelationshipsToAdd(stored, src, dst, cats))
               ELSE Outcome(NoError, stored, rm, <<>>)
        inner == Outcome(sub.err, sub.attrs, sub.mapper, built \o sub.msgs)
    IN  IF inner.err # NoError THEN inner
        ELSE IF cats.kind = "none"
        THEN Outcome(TypeErr, inner.attrs, inner.mapper, inner.msgs)
        ELSE LET kept == SelectSeq(table.columns,
                                   LAMBDA c : ~InDesignated(c, cats))
             IN  IF \/ source_column \notin Range(kept)
                    \/ destination_column \notin
                           Range(RemoveFirst(kept, source_column))
                 THEN Outcome(ValueErr, inner.attrs, inner.mapper, inner.msgs)
                 ELSE LET columns == RemoveFirst(RemoveFirst(kept, source_column),
                                                 destination_column)
                      IN  Outcome(NoError, inner.attrs, inner.mapper,
                             Append(inner.msgs,
                                Request("addEdgeProperties",
                                        ResolveEdgeIds(src.v, dst.v, vm, el),
                                        columns,
                                        ColumnArrays(inner.attrs, columns),
                                        <<>>)))

\* --------------------------------------------------------- the matcher
\* A predicate table: column name -> the value searched for.
NoPredicate == [c \in {} |-> 0]
Predicate(c, v) == [k \in {c} |-> v]

\* ak.intx(table, types): the rows of the table that equal the predicate on
\* each of its columns.
Intx(table, types) ==
    TruePositions([i \in 1..NRows(table) |->
                      \A c \in DOMAIN types : table.data[c].v[i] = types[c]], 1)

\* The intersection is defined when the table has the predicate's columns
\* and the columns that name its rows.
IntxDefined(table, types, keys) ==
    \A c \in (DOMAIN types) \cup keys : HasCol(table, c)

\* Step 1 of find_paths_of_length_one for the nodes: the names of the nodes
\* of the matching rows.
MatchingNodes(table, types) ==
    Take(table.data["nodes"].v, Intx(table, types))

\* Step 1 for the edges: the (src, dst) arrays of the matching rows.
MatchingEdges(table, types) ==
    <<Take(table.data["src"].v, Intx(table, types)),
      Take(table.data["dst"].v, Intx(table, types))>>

\* Steps 2 to 4 with "or" in place of "and" in step 3.
KeptEdgesEitherEndpoint(nodes, edges) ==
    LET src == In1d(edges[1], nodes)
        dst == In1d(edges[2], nodes)
        kept_edges == TruePositions([i \in DOMAIN src |-> src[i] \/ dst[i]], 1)
    IN  <<Take(edges[1], kept_edges), Take(edges[2], kept_edges)>>

\* Steps 2 to 4 of find_paths_of_length_one: of the matching edges, those
\* whose source and destination are both among the matching nodes.
KeptEdges(nodes, edges) ==
    LET src == In1d(edges[1], nodes)
        dst == In1d(edges[2], nodes)
        kept_edges == TruePositions([i \in DOMAIN src |-> src[i] /\ dst[i]], 1)
    IN  <<Take(edges[1], kept_edges), Take(edges[2], kept_edges)>>

\* ------------------------------------------------------------ the inputs
Frame(cols, arrays) ==
    [columns |-> cols,
     data |-> [c \in Range(cols) |->
                  arrays[CHOOSE i \in DOMAIN cols : cols[i] = c]]]

\* A property column whose value names the input row it came from.
RowTags(n) == [i \in 1..n |-> i]

\* Node tables: a key column, the textual column "type" and the numeric
\* column "ty".
NodeTables(key) ==
    UNION {{Frame(<<key, "type", "ty">>,
                  <<IntCol(k), StrCol(t), IntCol(RowTags(n))>>) :
               k \in [1..n -> NodeIds], t \in [1..n -> Vals]} : n \in 1..MaxRows}

\* Label tables: with and without the "nodes" column, with a textual or a
\* numeric label column.
LabelTables ==
    UNION {{Frame(<<"nodes", "type">>, <<IntCol(k), StrCol(t)>>) :
               k \in [1..n -> NodeIds], t \in [1..n -> Vals]}
           \cup {Frame(<<"type">>, <<StrCol(t)>>) : t \in [1..n -> Vals]}
           \cup {Frame(<<"nodes", "ty">>, <<IntCol(k), IntCol(RowTags(n))>>) :
                    k \in [1..n -> NodeIds]} : n \in 1..MaxRows}

\* Edge tables: two key columns, the textual column "rel" and the numeric
\* column "w".
EdgeTables(sc, dc) ==
    UNION {{Frame(<<sc, dc, "rel", "w">>,
                  <<IntCol(s), IntCol(d), StrCol(r), IntCol(RowTags(n))>>) :
               s \in [1..n -> NodeIds], d \in [1..n -> NodeIds],
               r \in [1..n -> Vals]} : n \in 1..MaxRows}

RelationshipTables ==
    UNION {{Frame(<<"src", "dst", "rel">>, <<IntCol(s), IntCol(d), StrCol(r)>>) :
               s \in [1..n -> NodeIds], d \in [1..n -> NodeIds],
               r \in [1..n -> Vals]}
           \cup {Frame(<<"rel">>, <<StrCol(r)>>) : r \in [1..n -> Vals]}
           \cup {Frame(<<"src", "dst", "w">>,
                       <<IntCol(s), IntCol(d), IntCol(RowTags(n))>>) :
                    s \in [1..n -> NodeIds], d \in [1..n -> NodeIds]}
           : n \in 1..MaxRows}

NodeKeyNames == {"nodes", "id"}
EdgeKeyNames == {<<"src", "dst">>, <<"source", "destination">>}
LabelDesignations == {NoColumns, OneColumn("type"), ColumnList(<<"type">>)}
RelationshipDesignations == {NoColumns, OneColumn("rel"), ColumnList(<<"rel">>)}

\* Predicates: none, or one categorical column equal to a code.
Predicates(c) == {NoPredicate} \cup {Predicate(c, v) : v \in 0..(MaxVal - 1)}

\* ------------------------------------------------------- the last call
Call(op, out, table, keys, cats) ==
    [op |-> op, err |-> out.err, msgs |-> out.msgs, table |-> table,
     keys |-> keys, cats |-> cats,
     nodes |-> <<>>, edges |-> <<<<>>, <<>>>>, paths |-> <<<<>>, <<>>>>]

Query(err, nodes, edges, paths) ==
    [op |-> "find_paths_of_length_one", err |-> err, msgs |-> <<>>,
     table |-> EmptyFrame, keys |-> <<>>, cats |-> NoColumns,
     nodes |-> nodes, edges |-> edges, paths |-> paths]

\* --------------------------------------------------------------- Init
\* PropGraph(): an empty graph, empty tables, empty mappers.
Init ==
    /\ vertex_map = <<>>
    /\ edge_list = <<>>
    /\ node_attributes = EmptyFrame
    /\ edge_attributes = EmptyFrame
    /\ label_mapper = EmptyMap
    /\ relationship_mapper = EmptyMap
    /\ last = Call("init", Outcome(NoError, EmptyFrame, EmptyMap, <<>>),
                   EmptyFrame, <<>>, NoColumns)
    /\ ncalls = 0

\* ------------------------------------------------------------- actions
\* G.add_edges_from(src, dst), inherited from DiGraph.
AddEdges ==
    /\ ncalls < MaxCalls
    /\ \E n \in 1..MaxRows : \E src \in [1..n -> NodeIds], dst \in [1..n -> NodeIds] :
        /\ vertex_map' = BuildVertices(src, dst)
        /\ edge_list' = BuildEdges(src, dst)
        /\ last' = Call("add_edges_from",
                        Outcome(NoError, EmptyFrame, EmptyMap,
                                << Request("addEdgesFrom", <<>>, <<>>,
                                           <<IntCol(src), IntCol(dst)>>, <<>>) >>),
                        Frame(<<"src", "dst">>, <<IntCol(src), IntCol(dst)>>),
                        <<"src", "dst">>, NoColumns)
    /\ ncalls' = ncalls + 1
    /\ UNCHANGED <<node_attributes, edge_attributes, label_mapper,
                   relationship_mapper>>

\* G.add_node_labels(labels)
AddNodeLabels ==
    /\ ncalls < MaxCalls
    /\ \E labels \in LabelTables :
        \E out \in {AddNodeLabelsCall(node_attributes, label_mapper,
                                       vertex_map, labels)} :
            /\ node_attributes' = out.attrs
            /\ label_mapper' = out.mapper
            /\ last' = Call("add_node_labels", out, labels, <<"nodes">>, NoColumns)
    /\ ncalls' = ncalls + 1
    /\ UNCHANGED <<vertex_map, edge_list, edge_attributes, relationship_mapper>>

\* G.load_node_attributes(table, node_column, label_columns)
LoadNodeAttributes ==
    /\ ncalls < MaxCalls
    /\ \E key \in NodeKeyNames, cats \in LabelDesignations :
       \E table \in NodeTables(key) :
        \E out \in {LoadNodeAttributesCall(label_mapper, vertex_map, table,
                                            key, cats)} :
            /\ node_attributes' = out.attrs
            /\ label_mapper' = out.mapper
            /\ last' = Call("load_node_attributes", out, table, <<key>>, cats)
    /\ ncalls' = ncalls + 1
    /\ UNCHANGED <<vertex_map, edge_list, edge_attributes, relationship_mapper>>

\* G.add_edge_relationships(relationships)
AddEdgeRelationships ==
    /\ ncalls < MaxCalls
    /\ \E rels \in RelationshipTables :
        \E out \in {AddEdgeRelationshipsCall(edge_attributes,
                            relationship_mapper, vertex_map, edge_list, rels)} :
            /\ edge_attributes' = out.attrs
            /\ relationship_mapper' = out.mapper
            /\ last' = Call("add_edge_relationships", out, rels,
                            <<"src", "dst">>, NoColumns)
    /\ ncalls' = ncalls + 1
    /\ UNCHANGED <<vertex_map, edge_list, node_attributes, label_mapper>>

\* G.load_edge_attributes(table, source_column, destination_column,
\*                        relationship_columns)
LoadEdgeAttributes ==
    /\ ncalls < MaxCalls
    /\ \E keys \in EdgeKeyNames, cats \in RelationshipDesignations :
       \E table \in EdgeTables(keys[1], keys[2]) :
        \E out \in {LoadEdgeAttributesCall(relationship_mapper, table,
                                            keys[1], keys[2], cats)},
           stored \in {StoredEdgeTable(table, keys[1], keys[2])} :
            /\ vertex_map' = BuildVertices(stored.data[keys[1]].v,
                                           stored.data[keys[2]].v)
            /\ edge_list' = BuildEdges(stored.data[keys[1]].v,
                                       stored.data[keys[2]].v)
            /\ edge_attributes' = out.attrs
            /\ relationship_mapper' = out.mapper
            /\ last' = Call("load_edge_attributes", out, table, keys, cats)
    /\ ncalls' = ncalls + 1
    /\ UNCHANGED <<node_attributes, label_mapper>>

\* G.find_paths_of_length_one(node_types, edge_types): a query, it changes
\* nothing of the graph.
FindPathsOfLengthOne ==
    /\ last.op # "find_paths_of_length_one"
    /\ \E node_types \in Predicates("type"), edge_types \in Predicates("rel") :
        IF ~IntxDefined(node_attributes, node_types, {"nodes"})
           \/ ~IntxDefined(edge_attributes, edge_types, {"src", "dst"})
        THEN last' = Query(ValueErr, <<>>, <<<<>>, <<>>>>, <<<<>>, <<>>>>)
        ELSE \E nodes \in {MatchingNodes(node_attributes, node_types)},
                edges \in {MatchingEdges(edge_attributes, edge_types)} :
                last' = Query(NoError, nodes, edges, KeptEdges(nodes, edges))
    /\ UNCHANGED <<vertex_map, edge_list, node_attributes, edge_attributes,
                   label_mapper, relationship_mapper, ncalls>>

Next ==
    \/ AddEdges
    \/ AddNodeLabels
    \/ LoadNodeAttributes
    \/ AddEdgeRelationships
    \/ LoadEdgeAttributes
    \/ FindPathsOfLengthOne

Spec == Init /\ [][Next]_vars

\* A further add_node_labels call, made when the calls of Spec are used up:
\* labels for a graph that already has edges and a node table.
AddNodeLabelsAgain ==
    /\ ncalls = MaxCalls
    /\ \E labels \in LabelTables :
        \E out \in {AddNodeLabelsCall(node_attributes, label_mapper,
                                       vertex_map, labels)} :
            /\ node_attributes' = out.attrs
            /\ label_mapper' = out.mapper
            /\ last' = Call("add_node_labels", out, labels, <<"nodes">>, NoColumns)
    /\ ncalls' = ncalls + 1
    /\ UNCHANGED <<vertex_map, edge_list, edge_attributes, relationship_mapper>>

\* The node side of the program alone, with one more add_node_labels call.
NextLabels ==
    \/ AddEdges
    \/ AddNodeLabels
    \/ LoadNodeAttributes
    \/ AddNodeLabelsAgain

SpecLabels == Init /\ [][NextLabels]_vars

\* ================================================================ claims
\* A step that is a call of the operation op.
CallOf(op) == ncalls' = ncalls + 1 /\ last'.op = op

\* The label columns of a label table: every column but "nodes".
LabelColumnsOf(table) == Range(table.columns) \ {"nodes"}

\* The requests of the last call with the command cmd.
Sent(cmd) == {i \in DOMAIN last.msgs : last.msgs[i].cmd = cmd}

\* C1: add_node_labels raises the name-collision error whenever a label
\* column of its input is already a column of the node attribute table.
C1_CollisionOnExistingLabel ==
    [][(/\ CallOf("add_node_labels")
        /\ HasCol(last'.table, "nodes")
        /\ \E c \in LabelColumnsOf(last'.table) : HasCol(node_attributes, c))
       => last'.err = NameCollision]_vars

\* C2: on a graph with edges and an empty node attribute table,
\* add_node_labels of a table with a "nodes" column (its label names are
\* then all new) raises nothing and sends its request to the server.
C2_FreshLabelsReachBackend ==
    [][(/\ CallOf("add_node_labels")
        /\ edge_list # <<>>
        /\ node_attributes = EmptyFrame
        /\ HasCol(last'.table, "nodes"))
       => (last'.err = NoError /\ last'.msgs # <<>>)]_vars

\* C3: add_node_labels of a table without a "nodes" column raises the
\* missing-key error and no other, whatever the node attribute table holds
\* (stated for the tables none of whose columns is in the node attribute
\* table, where no name collides).
C3_MissingNodesIsMissingKey ==
    [][(/\ CallOf("add_node_labels")
        /\ ~HasCol(last'.table, "nodes")
        /\ \A c \in LabelColumnsOf(last'.table) : ~HasCol(node_attributes, c))
       => last'.err = MissingKey]_vars

\* The four attribute loads, and the three of them that do not build the
\* graph.
Loads == {"add_node_labels", "load_node_attributes",
          "add_edge_relationships", "load_edge_attributes"}
AnnotatingLoads == Loads \ {"load_edge_attributes"}

StructuralErrors == {NameCollision, MissingKey}

\* C4 as claimed: no attribute load changes the vertices or the edges.
C4_NoLoadChangesGraph ==
    [][(ncalls' = ncalls + 1 /\ last'.op \in Loads)
       => (vertex_map' = vertex_map /\ edge_list' = edge_list)]_vars

\* C4 as amended: add_node_labels, load_node_attributes and
\* add_edge_relationships leave the vertices and the edges as they are;
\* load_edge_attributes builds them from the key columns of its input.
C4_OnlyEdgeLoadBuildsGraph ==
    [][/\ (ncalls' = ncalls + 1 /\ last'.op \in AnnotatingLoads)
          => (vertex_map' = vertex_map /\ edge_list' = edge_list)
       /\ CallOf("load_edge_attributes")
          => LET src == last'.table.data[last'.keys[1]].v
                 dst == last'.table.data[last'.keys[2]].v
             IN  /\ Range(vertex_map') = Range(src) \cup Range(dst)
                 /\ Cardinality(Range(edge_list')) = Cardinality(Range(Keys2(src, dst)))
                 /\ \A i \in DOMAIN src :
                        <<Find(<<src[i]>>, vertex_map')[1],
                          Find(<<dst[i]>>, vertex_map')[1]>> \in Range(edge_list')]_vars

\* C4 witness: a node load that completed on a graph with vertices, with an
\* input row whose node is not a vertex.
C4_Witness ==
    /\ last.op = "load_node_attributes"
    /\ last.err = NoError
    /\ vertex_map # <<>>
    /\ \E i \in 1..NRows(last.table) :
           last.table.data[last.keys[1]].v[i] \notin Range(vertex_map)

\* C5: every internal edge index add_edge_relationships hands to the server
\* is a position of the edge list, never the not-found marker.
C5_RelationshipIndicesValid ==
    last.op = "add_edge_relationships"
    => \A m \in Sent("addEdgeRelationships") :
           \A i \in DOMAIN last.msgs[m].indices :
               last.msgs[m].indices[i] \in 0..(Len(edge_list) - 1)

\* The (src, dst) pairs of a pair of arrays.
PairsOf(edges) == {<<edges[1][i], edges[2][i]>> : i \in DOMAIN edges[1]}

\* The stored table and dictionary of the category the operation op loads.
CategoryState(op, na, lm, ea, rm) ==
    IF op \in {"add_node_labels", "load_node_attributes"}
    THEN <<na, lm>> ELSE <<ea, rm>>

\* C6 as claimed: a load that aborts with a name-collision or missing-key
\* error has sent nothing to the server and has left the stored table and
\* dictionary of its category as they were.
C6_AbortLeavesNoTrace ==
    [][(/\ ncalls' = ncalls + 1
        /\ last'.op \in Loads
        /\ last'.err \in StructuralErrors)
       => /\ last'.msgs = <<>>
          /\ CategoryState(last'.op, node_attributes', label_mapper',
                           edge_attributes', relationship_mapper')
             = CategoryState(last'.op, node_attributes, label_mapper,
                             edge_attributes, relationship_mapper)]_vars

\* C6 as amended: a load that aborts with a name-collision or missing-key
\* error has sent no attribute request and has left the dictionary of its
\* category as it was; add_node_labels and add_edge_relationships called
\* directly have sent nothing and have left the stored table as it was;
\* load_node_attributes and load_edge_attributes have by then stored one
\* row per key of their input, and load_edge_attributes has sent the
\* request that builds the graph.
C6_AbortBeforeAttributeWrite ==
    [][(/\ ncalls' = ncalls + 1
        /\ last'.op \in Loads
        /\ last'.err \in StructuralErrors)
       => /\ {i \in DOMAIN last'.msgs : last'.msgs[i].cmd # "addEdgesFrom"} = {}
          /\ label_mapper' = label_mapper
          /\ relationship_mapper' = relationship_mapper
          /\ last'.op \in {"add_node_labels", "add_edge_relationships"}
             => /\ last'.msgs = <<>>
                /\ node_attributes' = node_attributes
                /\ edge_attributes' = edge_attributes
          /\ last'.op = "load_node_attributes"
             => /\ last'.msgs = <<>>
                /\ node_attributes'.columns = last'.table.columns
                /\ Range(node_attributes'.data[last'.keys[1]].v)
                   = Range(last'.table.data[last'.keys[1]].v)
          /\ last'.op = "load_edge_attributes"
             => /\ Len(last'.msgs) = 1
                /\ edge_attributes'.columns = last'.table.columns
                /\ PairsOf(<<edge_attributes'.data[last'.keys[1]].v,
                             edge_attributes'.data[last'.keys[2]].v>>)
                   = PairsOf(<<last'.table.data[last'.keys[1]].v,
                               last'.table.data[last'.keys[2]].v>>)]_vars

\* C6 witness: add_node_labels has aborted with the missing-key error on a
\* graph whose node attribute table holds the label column of the input.
C6_Witness ==
    /\ last.op = "add_node_labels"
    /\ last.err = MissingKey
    /\ \E c \in LabelColumnsOf(last.table) :
           HasCol(node_attributes, c) /\ last.table.data[c].str

AttributeLoads == {"load_node_attributes", "load_edge_attributes"}

\* The commands by which an attribute load delegates its categorical
\* columns and hands over its plain properties.
DelegationCommands == {"addNodeLabels", "addEdgeRelationships"}
PropertyCommands == {"addNodeProperties", "addEdgeProperties"}

SentAmong(cmds) == {i \in DOMAIN last.msgs : last.msgs[i].cmd \in cmds}

\* The columns of the input of the last call, in input order, without the
\* names in the set out.
InputColumnsWithout(out) == SelectSeq(last.table.columns, LAMBDA c : c \notin out)

\* C7: a load_node_attributes / load_edge_attributes call with designated
\* categorical columns, given as one name or as a list, that completes has
\* delegated exactly those columns and has handed over as plain properties
\* exactly the input columns that are neither designated nor keys.
C7_DesignatedColumnsDelegated ==
    (last.op \in AttributeLoads /\ last.cats.kind # "none" /\ last.err = NoError)
    => /\ \E m \in SentAmong(DelegationCommands) :
              last.msgs[m].columns = last.cats.names
       /\ \E m \in SentAmong(PropertyCommands) :
              last.msgs[m].columns
              = InputColumnsWithout(Range(last.cats.names) \cup Range(last.keys))

\* C8: a load_node_attributes / load_edge_attributes call without designated
\* categorical columns completes without error and hands every non-key
\* column of its input to the server as a plain property.
C8_DefaultLoadCompletes ==
    (last.op \in AttributeLoads /\ last.cats.kind = "none")
    => /\ last.err = NoError
       /\ \E m \in SentAmong(PropertyCommands) :
              last.msgs[m].columns = InputColumnsWithout(Range(last.keys))

\* C9: after a node attribute load on a graph with vertices the stored node
\* attribute table has one row per vertex, and row i is the row of internal
\* vertex i.
C9_NodeTableDense ==
    (last.op = "load_node_attributes" /\ last.err = NoError /\ vertex_map # <<>>)
    => node_attributes.data[last.keys[1]].v = vertex_map

\* C10: find_paths_of_length_one returns the edge (u, v) if and only if u
\* and v are both among the matching nodes and (u, v) is among the matching
\* edges.
C10_PathsAreMatchingEdgesBetweenMatchingNodes ==
    (last.op = "find_paths_of_length_one" /\ last.err = NoError)
    => /\ Len(last.paths[1]) = Len(last.paths[2])
       /\ \A u \in NodeIds, v \in NodeIds :
              <<u, v>> \in PairsOf(last.paths)
              <=> /\ u \in Range(last.nodes)
                  /\ v \in Range(last.nodes)
                  /\ <<u, v>> \in PairsOf(last.edges)

\* C10 witness: a query that returned an edge and left out a matching edge
\* that has exactly one endpoint among the matching nodes.
C10_Witness ==
    /\ last.op = "find_paths_of_length_one"
    /\ last.err = NoError
    /\ last.paths[1] # <<>>
    /\ \E e \in PairsOf(last.edges) \ PairsOf(last.paths) :
           e[1] \in Range(last.nodes) /\ e[2] \notin Range(last.nodes)

\* The table whose categorical columns the last call encoded: the input of
\* add_node_labels / add_edge_relationships, and for the attribute loads the
\* stored rows of the input, one per key.
CategoricalInput ==
    IF last.op = "load_node_attributes"
    THEN TakeRows(last.table, GroupFirst(Keys1(last.table.data[last.keys[1]].v)))
    ELSE IF last.op = "load_edge_attributes"
    THEN StoredEdgeTable(last.table, last.keys[1], last.keys[2])
    ELSE last.table

\* The stored table and the mapper a delegation command writes.
StoredFor(cmd) == IF cmd = "addNodeLabels" THEN node_attributes ELSE edge_attributes
MapperFor(cmd) == IF cmd = "addNodeLabels" THEN label_mapper ELSE relationship_mapper

\* C11: after a label or relationship load, for every textual column C of
\* it: each stored code lies in 0..k-1, k the number of distinct values of C
\* in that load; the dictionary lists those k values in ascending order; and
\* the dictionary entry of a row's code is the original value of that row.
C11_CodesAndDictionary ==
    last.err = NoError
    => \A m \in SentAmong(DelegationCommands) :
         \A j \in DOMAIN last.msgs[m].columns :
           LET c == last.msgs[m].columns[j]
               orig == CategoricalInput.data[c].v
               k == Cardinality(Range(orig))
               dict == MapperFor(last.msgs[m].cmd)[c]
               stored == StoredFor(last.msgs[m].cmd).data[c].v
           IN  CategoricalInput.data[c].str
               => /\ Len(dict) = k
                  /\ \A a \in 1..k, b \in 1..k : a < b => dict[a] < dict[b]
                  /\ last.msgs[m].mappers[j] = dict
                  /\ Len(stored) = Len(orig)
                  /\ \A i \in DOMAIN orig :
                         /\ stored[i] \in 0..(k - 1)
                         /\ dict[stored[i] + 1] = orig[i]

\* C11 witness: a load that encoded a textual column with two distinct
\* values whose first row carries the greater one.
C11_Witness ==
    /\ last.err = NoError
    /\ \E m \in SentAmong(DelegationCommands) :
         \E j \in DOMAIN last.msgs[m].columns :
           LET col == CategoricalInput.data[last.msgs[m].columns[j]]
           IN  col.str /\ Len(col.v) > 1 /\ col.v[1] > col.v[2]

\* The rows of the label table of the last call whose node is a vertex.
SurvivingRows ==
    {i \in DOMAIN CategoricalInput.data["nodes"].v :
        CategoricalInput.data["nodes"].v[i] \in Range(vertex_map)}

\* C12 as stated: the dictionary of a textual column sent by addNodeLabels
\* holds exactly the distinct values of the rows whose node is a vertex.
C12_DictionaryOfSurvivingRows ==
    \A m \in Sent("addNodeLabels") :
      \A j \in DOMAIN last.msgs[m].columns :
        LET col == CategoricalInput.data[last.msgs[m].columns[j]]
        IN  col.str
            => Range(last.msgs[m].mappers[j]) = {col.v[i] : i \in SurvivingRows}

\* C12 amended: the dictionary of a textual column sent by addNodeLabels,
\* and kept as the column's label mapper, holds the distinct values of all
\* rows of the label table, the rows dropped because their node is not a
\* vertex included, and a surviving row's code is the position of its value
\* among all of them.
C12_DictionaryOfAllRows ==
    \A m \in Sent("addNodeLabels") :
      \A j \in DOMAIN last.msgs[m].columns :
        LET c == last.msgs[m].columns[j]
            col == CategoricalInput.data[c]
            dict == last.msgs[m].mappers[j]
        IN  col.str
            => /\ Range(dict) = Range(col.v)
               /\ label_mapper[c] = dict
               /\ \A i \in SurvivingRows :
                    Cardinality({v \in Range(col.v) : v < col.v[i]})
                        = node_attributes.data[c].v[i]

\* C12 witness: addNodeLabels was sent for a table with a surviving row and
\* a dropped row whose label value occurs on no surviving row.
C12_Witness ==
    \E m \in Sent("addNodeLabels") :
      \E j \in DOMAIN last.msgs[m].columns :
        LET col == CategoricalInput.data[last.msgs[m].columns[j]]
        IN  /\ col.str
            /\ SurvivingRows # {}
            /\ \E i \in DOMAIN col.v :
                 /\ i \notin SurvivingRows
                 /\ \A k \in SurvivingRows : col.v[k] # col.v[i]

\* C13: the internal ids addNodeLabels hands to the backend are exactly the
\* internal ids of the input nodes that are vertices, each once, strictly
\* ascending; the label row kept for an id is the first input row with it.
C13_IdsAscendingFirstRowKept ==
    \A m \in Sent("addNodeLabels") :
      LET ids == CategoricalInput.data["nodes"].v
          idx == last.msgs[m].indices
          kept == KeptLabelRows(ids, vertex_map)
      IN  /\ Range(idx) = {j - 1 : j \in {h \in DOMAIN vertex_map :
                                             vertex_map[h] \in Range(ids)}}
          /\ \A a \in DOMAIN idx, b \in DOMAIN idx : a < b => idx[a] < idx[b]
          /\ Len(kept) = Len(idx)
          /\ \A i \in DOMAIN idx :
               /\ vertex_map[idx[i] + 1] = ids[kept[i]]
               /\ \A k \in 1..(kept[i] - 1) : ids[k] # ids[kept[i]]

\* C13 witness: addNodeLabels was sent for a label table whose two rows
\* name the same vertex.
C13_Witness ==
    /\ last.op = "add_node_labels"
    /\ Sent("addNodeLabels") # {}
    /\ LET ids == last.table.data["nodes"].v
       IN  Len(ids) = 2 /\ ids[1] = ids[2] /\ ids[1] \in Range(vertex_map)

\* C13 second witness: addNodeLabels was sent for a table with a node that
\* is a vertex and one that is not, the vertex on the later row.
C13_WitnessDropped ==
    \E m \in Sent("addNodeLabels") :
      LET ids == CategoricalInput.data["nodes"].v
      IN  Len(ids) = 2 /\ ids[1] \notin Range(vertex_map)
                       /\ ids[2] \in Range(vertex_map)

\* C14: in every request of a load operation the internal-id array and
\* every value array are row-aligned: they have the same number of rows,
\* and on the node side the value at position i is the value of the first
\* input row whose node resolved to the id at position i.
C14_RequestRowsAligned ==
    \A m \in SentAmong(DelegationCommands \cup PropertyCommands) :
      \A j \in DOMAIN last.msgs[m].arrays :
        LET idx == last.msgs[m].indices
            arr == last.msgs[m].arrays[j].v
        IN  /\ Len(arr) = Len(idx)
            /\ last.msgs[m].cmd \in {"addNodeLabels", "addNodeProperties"}
               => LET ids == CategoricalInput.data["nodes"].v
                      col == CategoricalInput.data[last.msgs[m].columns[j]].v
                  IN  \A i \in DOMAIN idx :
                        \E r \in DOMAIN ids :
                          /\ ids[r] = vertex_map[idx[i] + 1]
                          /\ \A k \in 1..(r - 1) : ids[k] # ids[r]
                          /\ arr[i] = col[r]

\* C14, the case of a partly resolved table: a request with at least one id
\* whose value arrays have more rows than there are ids.
C14_PartlyResolved ==
    \E m \in SentAmong(DelegationCommands \cup PropertyCommands) :
      /\ last.msgs[m].indices # <<>>
      /\ \E j \in DOMAIN last.msgs[m].arrays :
           Len(last.msgs[m].arrays[j].v) > Len(last.msgs[m].indices)

====
